---- MODULE Spec2Model ----
(***************************************************************************)
(* JobHacker-AI: the processed-jobs store (storage module, kept in         *)
(* src/src/notification.ts lines 130-212), the processJobs pipeline        *)
(* (index module, src/unnamed/part_003 lines 62-153), the scoring client   *)
(* (agent module, src/unnamed/part_002) and the job ids of the adapters    *)
(* (scraper module, src/unnamed/part_006).                                 *)
(*                                                                         *)
(* Job ids are opaque strings in the code; here they are 1..NumIds.        *)
(* Times are whole hours.                                                  *)
(***************************************************************************)
EXTENDS Integers, Sequences, FiniteSets, TLC

\* ------------------------------------------------------------------ bounds
NumIds == 3
MaxStore == 2
\* processJobs registers eight sources (part_003 lines 69-78) and treats them
\* alike; the model runs the first NumSources of them.
NumSources == 3
MaxJobs == 2
MaxRuns == 2
MaxText == 2
MaxLink == 2
NumKeys == 2
MaxTicks == 2
MaxFiltered == 2

\* --------------------------------------------------------------- constants
hoursThreshold == 24
minScore == 8

JobIds == 1..NumIds

VARIABLES
  file,      \* content of the storage file data/processed_jobs.json
  call,      \* the last call of an exported function: what was called, with what,
             \* and what came back
  seen,      \* ghost: ids some loadProcessedJobs returned since the last clear
  saved,     \* ghost: ids whose saveProcessedJob returned since the baseline
  baseline,  \* ghost: the store was absent at the start, or has been cleared
  now,       \* the clock, in hours
  pc,        \* where processJobs stands: idle, fetch, score, oracle, deliver, dead
  runs,      \* processJobs calls started so far
  runResult, \* how the last processJobs call ended: none, running, returned, rejected,
             \* crashed
  results,   \* Promise.allSettled: per source pending, fulfilled (with jobs) or rejected
  invoked,   \* ghost: the sources whose fetch was called in this run
  allJobs, recentJobs, newJobs,  \* the lists of processJobs
  i,         \* the score loop's index (1-based)
  analyzedJobs, highScoreJobs,
  d,         \* the delivery loop's index (1-based)
  delivered, \* ghost: the jobs handed to sendNotification in this run, in order
  scored,    \* ghost: the ids analyzeJob was called with in this run, in order
  failed,    \* ghost: the ids whose analyzeJob threw in this run
  oracleCount,      \* ghost: per id, the analyzeJob calls over all runs
  processedAtDedup, \* ghost: the ids the store held when this run's dedup filter ran
  fileAtStart       \* ghost: the store file when this run started

storeVars == <<file, call, seen, saved, baseline>>
runVars == <<now, pc, runs, runResult, results, invoked, allJobs, recentJobs, newJobs, i,
             analyzedJobs, highScoreJobs, d, delivered, scored, failed, oracleCount,
             processedAtDedup, fileAtStart>>
vars == <<storeVars, runVars>>

\* ------------------------------------------------------------- sequences
Range(s) == {s[k] : k \in 1..Len(s)}
Contains(s, x) == \E k \in 1..Len(s) : s[k] = x
NoDup(s) == \A k, m \in 1..Len(s) : s[k] = s[m] => k = m
SeqsUpTo(S, n) == UNION {[1..k -> S] : k \in 0..n}

\* --------------------------------------------------------- the store file
\* What the file can hold, by the way loadProcessedJobs reads it:
\*   absent      existsSync(storagePath) is false
\*   unreadable  readFileSync or JSON.parse throws, or the document is null
\*               (data.jobIds then throws a TypeError): empty or truncated
\*               file, any text that is not JSON
\*   noids       a JSON value whose jobIds is missing or falsy: {} or
\*               {"jobIds": null}
\*   nonlist     a JSON object whose jobIds is truthy and no array and has no
\*               includes method: {"jobIds": 42}, {"jobIds": {}}
\*   list        {"jobIds": [...], "lastUpdated": ...}
\* lastUpdated is never read by the code and is left out.
Absent == [kind |-> "absent", ids |-> <<>>]
Unreadable == [kind |-> "unreadable", ids |-> <<>>]
NoIds == [kind |-> "noids", ids |-> <<>>]
NonList == [kind |-> "nonlist", ids |-> <<>>]
ListFile(s) == [kind |-> "list", ids |-> s]

CorruptFiles == {Unreadable, NoIds, NonList}
FileStates == {Absent} \cup CorruptFiles \cup {ListFile(s) : s \in SeqsUpTo(JobIds, MaxStore)}

\* The ids a file stores as a list (nothing when it holds no list).
StoredIds(f) == IF f.kind = "list" THEN f.ids ELSE <<>>

\* A function result: threw, or a value. A value loaded from the store is a
\* list (isList, ids) or the non-list thing found under jobIds; a boolean
\* result is in bool.
Returned(isList, ids) == [threw |-> FALSE, isList |-> isList, ids |-> ids, bool |-> FALSE]
ReturnedBool(b) == [threw |-> FALSE, isList |-> FALSE, ids |-> <<>>, bool |-> b]
ReturnedVoid == [threw |-> FALSE, isList |-> FALSE, ids |-> <<>>, bool |-> FALSE]
Threw == [threw |-> TRUE, isList |-> FALSE, ids |-> <<>>, bool |-> FALSE]

\* Lines 145-147: readFileSync, JSON.parse, `return data.jobIds || []`.
ReadStore(f) ==
  CASE f.kind = "unreadable" -> Threw
    [] f.kind = "noids" -> Returned(TRUE, <<>>)
    [] f.kind = "nonlist" -> Returned(FALSE, <<>>)
    [] OTHER -> Returned(TRUE, f.ids)

loadProcessedJobs(f) ==
  IF f.kind = "absent"
    THEN Returned(TRUE, <<>>)
    ELSE LET r == ReadStore(f)
         IN IF r.threw THEN Returned(TRUE, <<>>) ELSE r

\* Array.prototype.includes on what loadProcessedJobs returned: a TypeError
\* when that is no list.
isJobProcessed(f, jobId) ==
  LET processedIds == loadProcessedJobs(f)
  IN IF ~processedIds.isList
       THEN Threw
       ELSE ReturnedBool(Contains(processedIds.ids, jobId))

\* writeFileSync(storagePath, JSON.stringify(data)) that completes.
WriteStore(ids) == ListFile(ids)

saveProcessedJob_noDedup(f, jobId) ==
  LET existingIds == loadProcessedJobs(f)
  IN IF ~existingIds.isList
       THEN [ret |-> Threw, file |-> f]
       ELSE [ret |-> ReturnedVoid, file |-> WriteStore(Append(existingIds.ids, jobId))]

saveProcessedJob_prepend(f, jobId) ==
  LET existingIds == loadProcessedJobs(f)
  IN IF ~existingIds.isList
       THEN [ret |-> Threw, file |-> f]
       ELSE IF Contains(existingIds.ids, jobId)
         THEN [ret |-> ReturnedVoid, file |-> f]
         ELSE [ret |-> ReturnedVoid, file |-> WriteStore(<<jobId>> \o existingIds.ids)]

saveProcessedJob_overwrite(f, jobId) ==
  LET existingIds == loadProcessedJobs(f)
  IN IF ~existingIds.isList
       THEN [ret |-> Threw, file |-> f]
       ELSE IF Contains(existingIds.ids, jobId)
         THEN [ret |-> ReturnedVoid, file |-> f]
         ELSE [ret |-> ReturnedVoid, file |-> WriteStore(<<jobId>>)]

\* saveProcessedJob with a file system whose write completes: the result and
\* the file it leaves. (The directory is taken to exist or to be creatable.)
saveProcessedJob(f, jobId) ==
  LET existingIds == loadProcessedJobs(f)
  IN IF ~existingIds.isList
       THEN [ret |-> Threw, file |-> f]
       ELSE IF Contains(existingIds.ids, jobId)
         THEN [ret |-> ReturnedVoid, file |-> f]
         ELSE [ret |-> ReturnedVoid, file |-> WriteStore(Append(existingIds.ids, jobId))]

clearProcessedJobs_noWrite(f) == [ret |-> ReturnedVoid, file |-> f]

clearProcessedJobs(f) == [ret |-> ReturnedVoid, file |-> WriteStore(<<>>)]

\* A caller's record of one call: the function, its argument, its result,
\* the call before it, and the file it found.
Call(op, id, ret, before) ==
  [op |-> op, id |-> id, ret |-> ret, prev |-> call.op, prevId |-> call.id,
   before |-> before]

NoCall ==
  [op |-> "none", id |-> 0, ret |-> ReturnedVoid, prev |-> "none", prevId |-> 0,
   before |-> Absent]

Repeats(c) == c.prev = c.op /\ c.prevId = c.id

\* ------------------------------------------------------------ the pipeline
Sources == 1..NumSources
Scores == {minScore - 1, minScore, minScore + 1}

\* A Job, as far as processJobs reads it: id and postedAt (an hour). The
\* postings the sources can return: one per id, posted half a window ago,
\* two windows ago (too old) or half a window ahead of the clock.
StartHour == 2 * hoursThreshold
PostedAtOf(id) ==
  CASE id % 4 = 2 -> 0
    [] id % 4 = 0 -> StartHour + hoursThreshold \div 2
    [] OTHER -> StartHour - hoursThreshold \div 2
Jobs == {[id |-> id, postedAt |-> PostedAtOf(id)] : id \in JobIds}

Pending == [state |-> "pending", jobs |-> <<>>]
Rejected == [state |-> "rejected", jobs |-> <<>>]
Fulfilled(jobs) == [state |-> "fulfilled", jobs |-> jobs]

\* results.forEach(...): allJobs.push(...result.value) for the fulfilled
\* results, by index, over the first n sources.
RECURSIVE Merge(_, _)
Merge(res, n) ==
  IF n = 0
    THEN <<>>
    ELSE Merge(res, n - 1) \o (IF res[n].state = "fulfilled" THEN res[n].jobs ELSE <<>>)

filterByTime_future(jobs, hours, clock) ==
  LET Recent(job) ==
        LET timeDiff == clock - job.postedAt
        IN timeDiff <= hours
  IN SelectSeq(jobs, Recent)
filterByTime_dropFirst(jobs, hours, clock) ==
  LET Recent(job) ==
        LET timeDiff == clock - job.postedAt
        IN timeDiff >= 0 /\ timeDiff <= hours
      kept == SelectSeq(jobs, Recent)
  IN IF kept = <<>> THEN kept ELSE Tail(kept)
filterByTime(jobs, hours, clock) ==
  LET Recent(job) ==
        LET timeDiff == clock - job.postedAt
        IN timeDiff >= 0 /\ timeDiff <= hours
  IN SelectSeq(jobs, Recent)

InsertByScore_unstable(sorted, a) ==
  LET before == SelectSeq(sorted, LAMBDA b : b.score > a.score)
      after == SelectSeq(sorted, LAMBDA b : b.score <= a.score)
  IN before \o <<a>> \o after

\* highScoreJobs.sort((a, b) => b.score - a.score): Array.prototype.sort is
\* stable, so this is the insertion of each job after those scoring at least
\* as much.
InsertByScore(sorted, a) ==
  LET before == SelectSeq(sorted, LAMBDA b : b.score >= a.score)
      after == SelectSeq(sorted, LAMBDA b : b.score < a.score)
  IN before \o <<a>> \o after

RECURSIVE SortDesc(_)
SortDesc(s) ==
  IF s = <<>>
    THEN <<>>
    ELSE InsertByScore(SortDesc(SubSeq(s, 1, Len(s) - 1)), s[Len(s)])

HighScore_strict(analyzed) ==
  SortDesc(SelectSeq(analyzed, LAMBDA job : job.score > minScore))

\* Lines 130-141: the jobs at or above minScore, sorted.
HighScore(analyzed) ==
  SortDesc(SelectSeq(analyzed, LAMBDA job : job.score >= minScore))

TotalFetched == Len(Merge(results, NumSources))

\* The per-run variables as a run finds them.
ResetRun ==
  /\ allJobs' = <<>>
  /\ recentJobs' = <<>>
  /\ newJobs' = <<>>
  /\ i' = 1
  /\ analyzedJobs' = <<>>
  /\ highScoreJobs' = <<>>
  /\ d' = 1
  /\ delivered' = <<>>
  /\ scored' = <<>>
  /\ failed' = {}
  /\ processedAtDedup' = {}

\* The store a first run can find: absent, corrupt, empty or holding one id.
RunFileStates ==
  {Absent} \cup CorruptFiles \cup {ListFile(<<>>)} \cup {ListFile(<<id>>) : id \in JobIds}

InitRunVars ==
  /\ now = StartHour
  /\ pc = "idle"
  /\ runs = 0
  /\ runResult = "none"
  /\ results = [s \in Sources |-> Pending]
  /\ invoked = {}
  /\ allJobs = <<>>
  /\ recentJobs = <<>>
  /\ newJobs = <<>>
  /\ i = 1
  /\ analyzedJobs = <<>>
  /\ highScoreJobs = <<>>
  /\ d = 1
  /\ delivered = <<>>
  /\ scored = <<>>
  /\ failed = {}
  /\ oracleCount = [id \in JobIds |-> 0]
  /\ processedAtDedup = {}
  /\ fileAtStart = file

\* processJobs is called (main line 185, or the schedule callback line 199,
\* after the run before it has ended): sources.map((s) => s.fetch()) calls
\* every fetch before the await.
StartRun ==
  /\ pc = "idle"
  /\ runs < MaxRuns
  /\ runs' = runs + 1
  /\ pc' = "fetch"
  /\ runResult' = "running"
  /\ results' = [s \in Sources |-> Pending]
  /\ invoked' = Sources
  /\ fileAtStart' = file
  /\ ResetRun
  /\ UNCHANGED <<storeVars, now, oracleCount>>

\* A source's fetch resolves with a list of jobs.
SettleFulfilled(s) ==
  /\ pc = "fetch"
  /\ results[s].state = "pending"
  /\ \E jobs \in SeqsUpTo(Jobs, MaxJobs - TotalFetched) :
       results' = [results EXCEPT ![s] = Fulfilled(jobs)]
  /\ UNCHANGED <<storeVars, now, pc, runs, runResult, invoked, allJobs, recentJobs, newJobs,
                 i, analyzedJobs, highScoreJobs, d, delivered, scored, failed, oracleCount,
                 processedAtDedup, fileAtStart>>

SettleRejected_failFast(s) ==
  /\ pc = "fetch"
  /\ results[s].state = "pending"
  /\ results' = [results EXCEPT ![s] = Rejected]
  /\ pc' = "idle"
  /\ runResult' = "rejected"
  /\ UNCHANGED <<storeVars, now, runs, invoked, allJobs, recentJobs, newJobs,
                 i, analyzedJobs, highScoreJobs, d, delivered, scored, failed, oracleCount,
                 processedAtDedup, fileAtStart>>

\* A source's fetch rejects.
SettleRejected(s) ==
  /\ pc = "fetch"
  /\ results[s].state = "pending"
  /\ results' = [results EXCEPT ![s] = Rejected]
  /\ UNCHANGED <<storeVars, now, pc, runs, runResult, invoked, allJobs, recentJobs, newJobs,
                 i, analyzedJobs, highScoreJobs, d, delivered, scored, failed, oracleCount,
                 processedAtDedup, fileAtStart>>

AllSettled == \A s \in Sources : results[s].state # "pending"

\* Lines 82-101 once Promise.allSettled resolves: merge, time filter, and the
\* dedup filter, which calls isJobProcessed for each recent job.
Merged == Merge(results, NumSources)
RecentOf(jobs) == filterByTime(jobs, hoursThreshold, now)
DedupThrows(recent) == recent # <<>> /\ isJobProcessed(file, recent[1].id).threw
NewOf(recent) == SelectSeq(recent, LAMBDA job : ~isJobProcessed(file, job.id).bool)

\* isJobProcessed throws in the filter: the outer catch rethrows (149-152).
JoinThrows ==
  /\ pc = "fetch"
  /\ AllSettled
  /\ DedupThrows(RecentOf(Merged))
  /\ allJobs' = Merged
  /\ recentJobs' = RecentOf(Merged)
  /\ pc' = "idle"
  /\ runResult' = "rejected"
  /\ UNCHANGED <<storeVars, now, runs, results, invoked, newJobs, i, analyzedJobs,
                 highScoreJobs, d, delivered, scored, failed, oracleCount,
                 processedAtDedup, fileAtStart>>

JoinEmpty_continue ==
  /\ pc = "fetch"
  /\ AllSettled
  /\ ~DedupThrows(RecentOf(Merged))
  /\ NewOf(RecentOf(Merged)) = <<>>
  /\ allJobs' = Merged
  /\ recentJobs' = RecentOf(Merged)
  /\ newJobs' = <<>>
  /\ processedAtDedup' = Range(loadProcessedJobs(file).ids)
  /\ pc' = "score"
  /\ UNCHANGED <<storeVars, now, runs, runResult, results, invoked, i, analyzedJobs,
                 highScoreJobs, d, delivered, scored, failed, oracleCount, fileAtStart>>

\* No new job: the early return of lines 104-107.
JoinEmpty ==
  /\ pc = "fetch"
  /\ AllSettled
  /\ ~DedupThrows(RecentOf(Merged))
  /\ NewOf(RecentOf(Merged)) = <<>>
  /\ allJobs' = Merged
  /\ recentJobs' = RecentOf(Merged)
  /\ newJobs' = <<>>
  /\ processedAtDedup' = Range(loadProcessedJobs(file).ids)
  /\ pc' = "idle"
  /\ runResult' = "returned"
  /\ UNCHANGED <<storeVars, now, runs, results, invoked, i, analyzedJobs,
                 highScoreJobs, d, delivered, scored, failed, oracleCount, fileAtStart>>

\* Some new job: on to the score loop.
JoinNew ==
  /\ pc = "fetch"
  /\ AllSettled
  /\ ~DedupThrows(RecentOf(Merged))
  /\ NewOf(RecentOf(Merged)) # <<>>
  /\ allJobs' = Merged
  /\ recentJobs' = RecentOf(Merged)
  /\ newJobs' = NewOf(RecentOf(Merged))
  /\ processedAtDedup' = Range(loadProcessedJobs(file).ids)
  /\ pc' = "score"
  /\ i' = 1
  /\ UNCHANGED <<storeVars, now, runs, runResult, results, invoked, analyzedJobs,
                 highScoreJobs, d, delivered, scored, failed, oracleCount, fileAtStart>>

ScoreCall_all ==
  /\ pc = "score"
  /\ i <= Len(newJobs)
  /\ Len(scored) = i - 1
  /\ pc' = "oracle"
  /\ scored' = scored \o [k \in 1..(Len(newJobs) - i + 1) |-> newJobs[i + k - 1].id]
  /\ oracleCount' = [id \in JobIds |->
                       oracleCount[id] +
                       Cardinality({k \in i..Len(newJobs) : newJobs[k].id = id})]
  /\ results' = [s \in Sources |-> Pending]
  /\ allJobs' = <<>>
  /\ recentJobs' = <<>>
  /\ UNCHANGED <<storeVars, now, runs, runResult, invoked,
                 newJobs, i, analyzedJobs, highScoreJobs, d, delivered, failed,
                 processedAtDedup, fileAtStart>>

\* Line 117: analyzeJob(newJobs[i]) is called and awaited. results, allJobs
\* and recentJobs are not read after line 101; the model forgets them here.
ScoreCall ==
  /\ pc = "score"
  /\ i <= Len(newJobs)
  /\ pc' = "oracle"
  /\ scored' = Append(scored, newJobs[i].id)
  /\ oracleCount' = [oracleCount EXCEPT ![newJobs[i].id] = @ + 1]
  /\ results' = [s \in Sources |-> Pending]
  /\ allJobs' = <<>>
  /\ recentJobs' = <<>>
  /\ UNCHANGED <<storeVars, now, runs, runResult, invoked,
                 newJobs, i, analyzedJobs, highScoreJobs, d, delivered, failed,
                 processedAtDedup, fileAtStart>>

\* saveProcessedJob as processJobs calls it: at line 121, and when that
\* throws once more in the catch (line 125); a throw there leaves the loop.
SaveInTry(f, jobId) ==
  LET first == saveProcessedJob(f, jobId)
  IN IF first.ret.threw THEN saveProcessedJob(first.file, jobId) ELSE first

AfterSave_eager(saved_, analyzed) ==
  /\ file' = saved_.file
  /\ analyzedJobs' = analyzed
  /\ i' = i + 1
  /\ IF saved_.ret.threw
       THEN /\ pc' = "idle"
            /\ runResult' = "rejected"
            /\ highScoreJobs' = highScoreJobs
       ELSE /\ highScoreJobs' = HighScore(analyzed)
            /\ IF HighScore(analyzed) = <<>>
                 THEN IF i + 1 <= Len(newJobs)
                        THEN pc' = "score" /\ runResult' = runResult
                        ELSE pc' = "idle" /\ runResult' = "returned"
                 ELSE pc' = "deliver" /\ runResult' = runResult

\* What follows one job's save: the next job, or, past the last one, lines
\* 130-146 up to the first sendNotification, or the rethrow of lines 149-152.
AfterSave(saved_, analyzed) ==
  /\ file' = saved_.file
  /\ analyzedJobs' = analyzed
  /\ i' = i + 1
  /\ IF saved_.ret.threw
       THEN /\ pc' = "idle"
            /\ runResult' = "rejected"
            /\ highScoreJobs' = highScoreJobs
       ELSE IF i + 1 <= Len(newJobs)
         THEN /\ pc' = "score"
              /\ runResult' = runResult
              /\ highScoreJobs' = highScoreJobs
         ELSE /\ highScoreJobs' = HighScore(analyzed)
              /\ IF HighScore(analyzed) = <<>>
                   THEN pc' = "idle" /\ runResult' = "returned"
                   ELSE pc' = "deliver" /\ runResult' = runResult

\* analyzeJob resolves with a score: lines 118-121.
OracleReturns ==
  /\ pc = "oracle"
  /\ \E score \in Scores :
       AfterSave(SaveInTry(file, newJobs[i].id),
                 Append(analyzedJobs, [job |-> newJobs[i], score |-> score]))
  /\ UNCHANGED <<call, seen, saved, baseline, now, runs, results, invoked, allJobs,
                 recentJobs, newJobs, d, delivered, scored, failed, oracleCount,
                 processedAtDedup, fileAtStart>>

OracleThrows_noSave ==
  /\ pc = "oracle"
  /\ AfterSave([ret |-> ReturnedVoid, file |-> file], analyzedJobs)
  /\ failed' = failed \cup {newJobs[i].id}
  /\ UNCHANGED <<call, seen, saved, baseline, now, runs, results, invoked, allJobs,
                 recentJobs, newJobs, d, delivered, scored, oracleCount,
                 processedAtDedup, fileAtStart>>

\* analyzeJob rejects: the catch of lines 122-126.
OracleThrows ==
  /\ pc = "oracle"
  /\ AfterSave(saveProcessedJob(file, newJobs[i].id), analyzedJobs)
  /\ failed' = failed \cup {newJobs[i].id}
  /\ UNCHANGED <<call, seen, saved, baseline, now, runs, results, invoked, allJobs,
                 recentJobs, newJobs, d, delivered, scored, oracleCount,
                 processedAtDedup, fileAtStart>>

\* Lines 143-146: printJob and sendNotification for the next high-score job;
\* sendNotification never rejects (notification.ts lines 43-85).
Deliver ==
  /\ pc = "deliver"
  /\ d <= Len(highScoreJobs)
  /\ delivered' = Append(delivered, highScoreJobs[d])
  /\ d' = d + 1
  /\ IF d + 1 <= Len(highScoreJobs)
       THEN pc' = "deliver" /\ runResult' = runResult
       ELSE pc' = "idle" /\ runResult' = "returned"
  /\ UNCHANGED <<storeVars, now, runs, results, invoked, allJobs, recentJobs, newJobs, i,
                 analyzedJobs, highScoreJobs, scored, failed, oracleCount,
                 processedAtDedup, fileAtStart>>

InitRun ==
  /\ file \in RunFileStates
  /\ call = NoCall
  /\ seen = {}
  /\ saved = {}
  /\ baseline = (file.kind = "absent")
  /\ InitRunVars

NextRun ==
  \/ StartRun
  \/ \E s \in Sources : SettleFulfilled(s)
  \/ \E s \in Sources : SettleRejected(s)
  \/ JoinThrows
  \/ JoinEmpty
  \/ JoinNew
  \/ ScoreCall
  \/ OracleReturns
  \/ OracleThrows
  \/ Deliver

SpecRun == InitRun /\ [][NextRun]_vars

\* ---------------------------------------------- the run and a dying process
\* The process dies inside the saveProcessedJob of line 121 or 125, once the
\* id is found new: writeFileSync (notification.ts line 177) has not opened
\* the file yet, has truncated or partly written it, or has written it whole.
\* Nothing of the run happens after that.
CrashInSave ==
  LET existingIds == loadProcessedJobs(file)
  IN /\ pc = "oracle"
     /\ existingIds.isList
     /\ ~Contains(existingIds.ids, newJobs[i].id)
     /\ file' \in {file, Unreadable, WriteStore(Append(existingIds.ids, newJobs[i].id))}
     /\ pc' = "dead"
     /\ runResult' = "crashed"
     /\ UNCHANGED <<call, seen, saved, baseline, now, runs, results, invoked, allJobs,
                    recentJobs, newJobs, i, analyzedJobs, highScoreJobs, d, delivered,
                    scored, failed, oracleCount, processedAtDedup, fileAtStart>>

NextRunCrash ==
  \/ NextRun
  \/ CrashInSave

SpecRunCrash == InitRun /\ [][NextRunCrash]_vars

\* ------------------------------------------- the run and a failing write
\* writeFileSync throws (no permission, read-only or full disk) and leaves the
\* file as it was; saveProcessedJob logs and rethrows (storage lines 176-181).
\* In the try of the score loop the catch calls saveProcessedJob again (line
\* 125); that throw leaves the loop and processJobs rethrows (lines 149-152).
WriteWouldHappen ==
  LET existingIds == loadProcessedJobs(file)
  IN existingIds.isList /\ ~Contains(existingIds.ids, newJobs[i].id)

RunRejectsInLoop ==
  /\ pc' = "idle"
  /\ runResult' = "rejected"
  /\ UNCHANGED <<storeVars, now, runs, results, invoked, allJobs, recentJobs, newJobs, i,
                 highScoreJobs, d, delivered, scored, oracleCount, processedAtDedup,
                 fileAtStart>>

\* analyzeJob resolves, the result is pushed, both writes fail.
OracleReturnsWriteFails ==
  /\ pc = "oracle"
  /\ WriteWouldHappen
  /\ \E score \in Scores :
       analyzedJobs' = Append(analyzedJobs, [job |-> newJobs[i], score |-> score])
  /\ failed' = failed
  /\ RunRejectsInLoop

\* analyzeJob rejects, the write in the catch fails.
OracleThrowsWriteFails ==
  /\ pc = "oracle"
  /\ WriteWouldHappen
  /\ analyzedJobs' = analyzedJobs
  /\ failed' = failed \cup {newJobs[i].id}
  /\ RunRejectsInLoop

NextRunFault ==
  \/ NextRun
  \/ OracleReturnsWriteFails
  \/ OracleThrowsWriteFails

SpecRunFault == InitRun /\ [][NextRunFault]_vars

\* ------------------------------------------------- the store, called freely
\* The exported storage functions, called in any order on any store content,
\* by a process whose file system completes every read and write.
InitStore ==
  /\ file \in FileStates
  /\ call = NoCall
  /\ seen = {}
  /\ saved = {}
  /\ baseline = (file.kind = "absent")
  /\ InitRunVars

CallLoad ==
  LET r == loadProcessedJobs(file)
  IN /\ call' = Call("load", 0, r, file)
     /\ seen' = seen \cup Range(r.ids)
     /\ UNCHANGED <<file, saved, baseline, runVars>>

CallIsJobProcessed(jobId) ==
  /\ call' = Call("isJobProcessed", jobId, isJobProcessed(file, jobId), file)
  /\ UNCHANGED <<file, seen, saved, baseline, runVars>>

CallSave(jobId) ==
  LET r == saveProcessedJob(file, jobId)
  IN /\ file' = r.file
     /\ call' = Call("save", jobId, r.ret, file)
     /\ saved' = IF r.ret.threw THEN saved ELSE saved \cup {jobId}
     /\ UNCHANGED <<seen, baseline, runVars>>

CallClear ==
  LET r == clearProcessedJobs(file)
  IN /\ file' = r.file
     /\ call' = Call("clear", 0, r.ret, file)
     /\ seen' = {}
     /\ saved' = {}
     /\ baseline' = TRUE
     /\ UNCHANGED runVars

NextStore ==
  \/ CallLoad
  \/ \E jobId \in JobIds : CallIsJobProcessed(jobId)
  \/ \E jobId \in JobIds : CallSave(jobId)
  \/ CallClear

Init == InitStore
Next == NextStore
Spec == Init /\ [][Next]_vars

\* ------------------------------------------- the store and a dying process
\* writeFileSync (line 177) opens the file with flag 'w', which truncates
\* it, then writes the document. A process that dies inside saveProcessedJob
\* once the id is found new leaves the file as it was (it died before the
\* open), truncated or partly written (unreadable), or written whole. The
\* calls that follow are those of the next process; the ghosts start anew.
SaveCrash(jobId) ==
  LET existingIds == loadProcessedJobs(file)
  IN /\ existingIds.isList
     /\ ~Contains(existingIds.ids, jobId)
     /\ file' \in {file, Unreadable, WriteStore(Append(existingIds.ids, jobId))}
     /\ call' = Call("saveCrashed", jobId, Threw, file)
     /\ seen' = {}
     /\ saved' = {}
     /\ baseline' = FALSE
     /\ UNCHANGED runVars

NextCrash ==
  \/ NextStore
  \/ \E jobId \in JobIds : SaveCrash(jobId)

SpecCrash == InitStore /\ [][NextCrash]_vars

\* ------------------------------------------------------- the scoring client
\* (agent module, src/unnamed/part_002). A text is a sequence of characters;
\* a number is held in tenths, so that 7.5 is 75 and 10 is 100.
Chars == {" ", "x", "8"}
Texts == SeqsUpTo(Chars, MaxText)

RECURSIVE TrimStart(_)
TrimStart(s) == IF s # <<>> /\ Head(s) = " " THEN TrimStart(Tail(s)) ELSE s
RECURSIVE TrimEnd(_)
TrimEnd(s) ==
  IF s # <<>> /\ s[Len(s)] = " " THEN TrimEnd(SubSeq(s, 1, Len(s) - 1)) ELSE s
\* String.prototype.trim
Trim(s) == TrimEnd(TrimStart(s))

\* The JSON values a field of the oracle's answer can hold; undefined is a
\* field that is not there.
JUndefined == [type |-> "undefined", num |-> 0, text |-> <<>>]
JNull == [type |-> "null", num |-> 0, text |-> <<>>]
JBool(b) == [type |-> "boolean", num |-> IF b THEN 1 ELSE 0, text |-> <<>>]
JNumber(tenths) == [type |-> "number", num |-> tenths, text |-> <<>>]
JString(s) == [type |-> "string", num |-> 0, text |-> s]
JEmptyArray == [type |-> "emptyarray", num |-> 0, text |-> <<>>]
JArrayOf(tenths) == [type |-> "array", num |-> tenths, text |-> <<>>]
JObject == [type |-> "object", num |-> 0, text |-> <<>>]

NumberTenths == {-10, 0, 5, 10, 75, 80, 100, 105, 150}
JsonValues ==
  {JUndefined, JNull, JBool(TRUE), JBool(FALSE), JEmptyArray, JArrayOf(70), JObject}
    \cup {JNumber(n) : n \in NumberTenths}
    \cup {JString(s) : s \in Texts}

\* A JavaScript number: NaN, or a value in tenths.
NaN == [nan |-> TRUE, tenths |-> 0]
Num(tenths) == [nan |-> FALSE, tenths |-> tenths]

Digits == {"0", "1", "2", "3", "4", "5", "6", "7", "8", "9"}
DigitValue(c) ==
  CASE c = "0" -> 0 [] c = "1" -> 1 [] c = "2" -> 2 [] c = "3" -> 3 [] c = "4" -> 4
    [] c = "5" -> 5 [] c = "6" -> 6 [] c = "7" -> 7 [] c = "8" -> 8 [] c = "9" -> 9
DigitChar(n) ==
  CASE n = 0 -> "0" [] n = 1 -> "1" [] n = 2 -> "2" [] n = 3 -> "3" [] n = 4 -> "4"
    [] n = 5 -> "5" [] n = 6 -> "6" [] n = 7 -> "7" [] n = 8 -> "8" [] n = 9 -> "9"

RECURSIVE DigitsValue(_)
DigitsValue(s) ==
  IF s = <<>> THEN 0 ELSE 10 * DigitsValue(SubSeq(s, 1, Len(s) - 1)) + DigitValue(s[Len(s)])

\* Number(text): white space is trimmed, the empty text is 0, a run of
\* digits is its value, anything else over Chars is NaN.
StringToNumber(s) ==
  LET body == Trim(s)
  IN IF body = <<>>
       THEN Num(0)
       ELSE IF \A k \in 1..Len(body) : body[k] \in Digits
         THEN Num(10 * DigitsValue(body))
         ELSE NaN

\* Number(value)
ToNumber(v) ==
  CASE v.type = "undefined" -> NaN
    [] v.type = "null" -> Num(0)
    [] v.type = "boolean" -> Num(10 * v.num)
    [] v.type = "number" -> Num(v.num)
    [] v.type = "string" -> StringToNumber(v.text)
    [] v.type = "emptyarray" -> Num(0)
    [] v.type = "array" -> Num(v.num)
    [] OTHER -> NaN

\* value || '' keeps the value when it is truthy.
Truthy(v) ==
  CASE v.type \in {"undefined", "null"} -> FALSE
    [] v.type = "boolean" -> v.num = 1
    [] v.type = "number" -> v.num # 0
    [] v.type = "string" -> v.text # <<>>
    [] OTHER -> TRUE

RECURSIVE NatText(_)
NatText(n) == IF n < 10 THEN <<DigitChar(n)>> ELSE NatText(n \div 10) \o <<DigitChar(n % 10)>>

\* String(number), the number in tenths.
NumberText(tenths) ==
  LET abs == IF tenths < 0 THEN -tenths ELSE tenths
      whole == NatText(abs \div 10)
      frac == IF abs % 10 = 0 THEN <<>> ELSE <<".", DigitChar(abs % 10)>>
  IN (IF tenths < 0 THEN <<"-">> ELSE <<>>) \o whole \o frac

\* String(value) of a truthy value.
StringOf(v) ==
  CASE v.type = "string" -> v.text
    [] v.type = "number" -> NumberText(v.num)
    [] v.type = "boolean" -> <<"t", "r", "u", "e">>
    [] v.type = "emptyarray" -> <<>>
    [] v.type = "array" -> NumberText(v.num)
    [] OTHER -> <<"[", "o", "b", "j", "e", "c", "t", " ", "O", "b", "j", "e", "c", "t", "]">>

\* What the oracle's text holds between its optional code fence: something
\* that is no JSON document, the document null, a JSON document that is
\* neither null nor an object with fields of its own (a number, a string, an
\* array), or an object with the fields score and reason.
NotJsonBody == [kind |-> "notjson", score |-> JUndefined, reason |-> JUndefined]
NullBody == [kind |-> "null", score |-> JUndefined, reason |-> JUndefined]
ScalarBody == [kind |-> "scalar", score |-> JUndefined, reason |-> JUndefined]
ObjectBody(score, reason) == [kind |-> "object", score |-> score, reason |-> reason]
Bodies ==
  {NotJsonBody, NullBody, ScalarBody}
    \cup {ObjectBody(score, reason) : score \in JsonValues, reason \in JsonValues}

\* The oracle's text: white space around it or none, a fence ```json ... ```,
\* a fence ``` ... ``` or none, and the body.
Fences == {"none", "json", "bare"}
RawText(pad, fence, body) == [pad |-> pad, fence |-> fence, body |-> body]
RawTexts == {RawText(pad, fence, body) : pad \in BOOLEAN, fence \in Fences, body \in Bodies}

\* Lines 101-106: trim, then the fence markers are removed when the text
\* starts with one.
Cleaned(response) ==
  LET trimmed == [response EXCEPT !.pad = FALSE]
  IN IF trimmed.fence \in {"json", "bare"}
       THEN [trimmed EXCEPT !.fence = "none"]
       ELSE trimmed

\* JSON.parse(text): a SyntaxError for a fenced text and for a body that is
\* no JSON; white space around a document is allowed.
JsonParse(text) ==
  IF text.fence # "none" \/ text.body.kind = "notjson"
    THEN [threw |-> TRUE, value |-> NotJsonBody]
    ELSE [threw |-> FALSE, value |-> text.body]

ParseThrew == [threw |-> TRUE, score |-> 0, reason |-> <<>>]
Parsed(score, reason) == [threw |-> FALSE, score |-> score, reason |-> reason]

parseAIResponse_noRange(response) ==
  LET parsed == JsonParse(Cleaned(response))
  IN IF parsed.threw \/ parsed.value.kind = "null"
       THEN ParseThrew
       ELSE LET score == ToNumber(parsed.value.score)
                reason == IF Truthy(parsed.value.reason)
                            THEN StringOf(parsed.value.reason)
                            ELSE <<>>
            IN IF score.nan
                 THEN ParseThrew
                 ELSE IF reason = <<>> \/ Len(Trim(reason)) = 0
                   THEN ParseThrew
                   ELSE Parsed(score.tenths, Trim(reason))

\* Lines 99-127. parsed.score of null is a TypeError; of a number, string or
\* array it is undefined. Every throw of the try block is rethrown by the
\* catch as a new Error.
parseAIResponse(response) ==
  LET parsed == JsonParse(Cleaned(response))
  IN IF parsed.threw \/ parsed.value.kind = "null"
       THEN ParseThrew
       ELSE LET score == ToNumber(parsed.value.score)
                reason == IF Truthy(parsed.value.reason)
                            THEN StringOf(parsed.value.reason)
                            ELSE <<>>
            IN IF score.nan \/ score.tenths < 10 \/ score.tenths > 100
                 THEN ParseThrew
                 ELSE IF reason = <<>> \/ Len(Trim(reason)) = 0
                   THEN ParseThrew
                   ELSE Parsed(score.tenths, Trim(reason))

\* A Job with all its fields (types.ts lines 4-20).
FullJob(id) ==
  [id |-> id, title |-> <<"x">>, company |-> <<"x", "8">>, description |-> <<"x", " ", "x">>,
   url |-> <<"8">>, postedAt |-> PostedAtOf(id), source |-> "remoteok"]
FullJobs == {FullJob(id) : id \in JobIds}

\* { ...job, score, reason } (lines 173-177)
Analyzed(job, score, reason) ==
  [id |-> job.id, title |-> job.title, company |-> job.company,
   description |-> job.description, url |-> job.url, postedAt |-> job.postedAt,
   source |-> job.source, score |-> score, reason |-> reason]

\* What the transport gives analyzeJob: the request fails, or the response
\* holds no text (content[0].text, or choices[0].message.content, is missing
\* or null), the empty text, or a text.
TransportFails == [kind |-> "fails", text |-> RawText(FALSE, "none", NotJsonBody)]
NoContent == [kind |-> "nocontent", text |-> RawText(FALSE, "none", NotJsonBody)]
EmptyContent == [kind |-> "empty", text |-> RawText(FALSE, "none", NotJsonBody)]
Content(text) == [kind |-> "text", text |-> text]
Replies == {TransportFails, NoContent, EmptyContent} \cup {Content(text) : text \in RawTexts}

Providers == {"claude", "deepseek"}

AnalyzeRejected == [rejected |-> TRUE, value |-> Analyzed(FullJob(1), 0, <<>>)]
AnalyzeResolved(a) == [rejected |-> FALSE, value |-> a]

\* Lines 30-66: axios.post rejects, or the text of the first content block;
\* a falsy text throws.
callClaudeAPI(reply) ==
  IF reply.kind # "text" THEN [threw |-> TRUE, content |-> reply.text]
  ELSE [threw |-> FALSE, content |-> reply.text]

\* Lines 148-168: create rejects, or choices[0]?.message?.content || '';
\* the empty text throws.
CallChatCompletion(reply) ==
  IF reply.kind = "fails" THEN [threw |-> TRUE, content |-> reply.text]
  ELSE IF reply.kind \in {"nocontent", "empty"} THEN [threw |-> TRUE, content |-> reply.text]
  ELSE [threw |-> FALSE, content |-> reply.text]

analyzeJob_fallback(job, keySet, provider, reply) ==
  IF ~keySet
    THEN AnalyzeRejected
    ELSE LET got == IF provider = "claude" THEN callClaudeAPI(reply)
                    ELSE CallChatCompletion(reply)
         IN IF got.threw
              THEN AnalyzeRejected
              ELSE LET r == parseAIResponse(got.content)
                   IN IF r.threw
                        THEN AnalyzeResolved(Analyzed(job, 50, <<"x">>))
                        ELSE AnalyzeResolved(Analyzed(job, r.score, r.reason))

\* Lines 132-182. getAIConfig (part_004 lines 111-134) throws when no key is
\* set; the catch of lines 178-181 rethrows.
analyzeJob(job, keySet, provider, reply) ==
  IF ~keySet
    THEN AnalyzeRejected
    ELSE LET got == IF provider = "claude" THEN callClaudeAPI(reply)
                    ELSE CallChatCompletion(reply)
         IN IF got.threw
              THEN AnalyzeRejected
              ELSE LET r == parseAIResponse(got.content)
                   IN IF r.threw
                        THEN AnalyzeRejected
                        ELSE AnalyzeResolved(Analyzed(job, r.score, r.reason))

\* The functions of the agent module, each called once on any text and any
\* reply: the call to make is drawn at the start.
ParseCalls == {[op |-> "parseAIResponse", response |-> response] : response \in RawTexts}
AnalyzeCalls ==
  {[op |-> "analyzeJob", job |-> job, keySet |-> keySet, provider |-> provider,
    reply |-> reply] :
     job \in FullJobs, keySet \in BOOLEAN, provider \in Providers, reply \in Replies}

InitAgent ==
  /\ file = Absent
  /\ call \in {[done |-> FALSE, args |-> c, ret |-> ParseThrew] : c \in ParseCalls}
       \cup {[done |-> FALSE, args |-> c, ret |-> AnalyzeRejected] : c \in AnalyzeCalls}
  /\ seen = {}
  /\ saved = {}
  /\ baseline = TRUE
  /\ InitRunVars

CallParseAIResponse ==
  /\ ~call.done
  /\ call.args.op = "parseAIResponse"
  /\ call' = [call EXCEPT !.done = TRUE, !.ret = parseAIResponse(call.args.response)]
  /\ UNCHANGED <<file, seen, saved, baseline, runVars>>

CallAnalyzeJob ==
  /\ ~call.done
  /\ call.args.op = "analyzeJob"
  /\ call' = [call EXCEPT !.done = TRUE,
                          !.ret = analyzeJob(call.args.job, call.args.keySet,
                                             call.args.provider, call.args.reply)]
  /\ UNCHANGED <<file, seen, saved, baseline, runVars>>

NextAgent ==
  \/ CallParseAIResponse
  \/ CallAnalyzeJob

SpecAgent == InitAgent /\ [][NextAgent]_vars

\* ---------------------------------------------------------- the job ids
\* (scraper module, src/unnamed/part_006). An id is a text: the source tag,
\* "-", and the characters of the key.
LinkChars == {"/", "j", "4"}
Links == SeqsUpTo(LinkChars, MaxLink)
NativeKeys == 0..NumKeys  \* 0: the record has no id of its own

\* A Date: Invalid Date, or an hour.
InvalidDate == [valid |-> FALSE, at |-> 0]
DateAt(hour) == [valid |-> TRUE, at |-> hour]

\* A record's time field (epoch, pubDate, published_at): missing, a value
\* no Date can be made of, or a time.
TimeMissing == [kind |-> "missing", at |-> 0]
TimeBad == [kind |-> "bad", at |-> 0]
TimeAt(hour) == [kind |-> "time", at |-> hour]
TimeValues == {TimeMissing, TimeBad, TimeAt(StartHour - 1)}

\* A source record, as far as the id and the time are made of it: its own id
\* (id, objectID), its link (link, url), its title and its time field.
RawRecord(key, link, time) == [key |-> key, link |-> link, title |-> <<"j">>, time |-> time]
RawRecords ==
  {RawRecord(key, link, time) : key \in NativeKeys, link \in Links, time \in TimeValues}

\* `${value}` of an id field: the digits of a number, or "undefined".
KeyText(key) == IF key = 0 THEN <<"undefined">> ELSE NatText(key)

\* Lines 601-607: new Date(dateString) does not throw; it gives Invalid Date
\* for undefined and for a text that is no date.
parseDate(time) == IF time.kind = "time" THEN DateAt(time.at) ELSE InvalidDate

\* link.match(/\/(\d+)/): the digits that follow the first "/" that has a
\* digit after it, or no match (the empty text).
RECURSIVE DigitRun(_)
DigitRun(s) ==
  IF s # <<>> /\ Head(s) \in Digits THEN <<Head(s)>> \o DigitRun(Tail(s)) ELSE <<>>
RECURSIVE UrlMatch(_)
UrlMatch(link) ==
  IF Len(link) < 2
    THEN <<>>
    ELSE IF link[1] = "/" /\ link[2] \in Digits
      THEN DigitRun(Tail(link))
      ELSE UrlMatch(Tail(link))

\* Date.now() as a text; the clock stands for the milliseconds.
ClockText(clock) == NatText(clock)

\* Lines 545-588: id, postedAt and source of the Job (title, company,
\* description and url do not enter the id).
normalizeJob(rawJob, source, clock) ==
  IF source = "remoteok"
    THEN [id |-> <<"remoteok", "-">> \o KeyText(rawJob.key),
          postedAt |-> parseDate(rawJob.time),
          source |-> "remoteok"]
    ELSE IF source = "weworkremotely"
      THEN LET urlMatch == UrlMatch(rawJob.link)
           IN [id |-> IF urlMatch # <<>>
                        THEN <<"weworkremotely", "-">> \o urlMatch
                        ELSE <<"weworkremotely", "-">> \o ClockText(clock),
               postedAt |-> parseDate(rawJob.time),
               source |-> "weworkremotely"]
      ELSE [id |-> <<"web3career", "-">> \o KeyText(rawJob.key),
            postedAt |-> IF rawJob.time.kind = "missing"
                           THEN DateAt(clock)
                           ELSE parseDate(rawJob.time),
            source |-> "web3career"]

NormalizeSources == {"remoteok", "weworkremotely", "web3career"}

\* Lines 532-540. hash is a 32-bit integer, held as two 16-bit halves:
\* (hash << 5) - hash + char is 31 * hash + char, and `hash & hash` keeps
\* its low 32 bits.
Word16 == 65536
CharCode(c) ==
  CASE c = "/" -> 47 [] c = "j" -> 106 [] c = "4" -> 52 [] c = "u" -> 117
    [] c = "n" -> 110 [] c = "d" -> 100 [] c = "e" -> 101 [] c = "f" -> 102
    [] c = "i" -> 105 [] OTHER -> 120
HashStep(hash, char) ==
  LET low == 31 * hash.lo + char
  IN [hi |-> (31 * hash.hi + low \div Word16) % Word16, lo |-> low % Word16]
RECURSIVE HashOf(_)
HashOf(str) ==
  IF str = <<>>
    THEN [hi |-> 0, lo |-> 0]
    ELSE HashStep(HashOf(SubSeq(str, 1, Len(str) - 1)), CharCode(str[Len(str)]))
\* Math.abs of the signed 32-bit value.
HashAbs(hash) ==
  IF hash.hi < Word16 \div 2
    THEN hash
    ELSE [hi |-> (Word16 - 1 - hash.hi + (IF hash.lo = 0 THEN 1 ELSE 0)) % Word16,
          lo |-> (Word16 - hash.lo) % Word16]
Base36Digits ==
  <<"0", "1", "2", "3", "4", "5", "6", "7", "8", "9", "a", "b", "c", "d", "e", "f", "g",
    "h", "i", "j", "k", "l", "m", "n", "o", "p", "q", "r", "s", "t", "u", "v", "w", "x",
    "y", "z">>
\* Number.prototype.toString(36)
RECURSIVE Base36(_)
Base36(n) ==
  LET rest == (n.hi % 36) * Word16 + n.lo
      quotient == [hi |-> n.hi \div 36, lo |-> rest \div 36]
      digit == Base36Digits[(rest % 36) + 1]
  IN IF quotient.hi = 0 /\ quotient.lo = 0
       THEN <<digit>>
       ELSE Base36(quotient) \o <<digit>>
hashString(str) == Base36(HashAbs(HashOf(str)))

\* The adapters, as far as they give an item its id. web3career has a JSON
\* endpoint and RSS endpoints, which make the id differently.
Adapters ==
  {"remoteok", "weworkremotely", "web3career-json", "web3career-rss", "hnhiring",
   "jobicy", "cryptojobslist", "workingnomads", "remotive"}

\* Math.random(), in tenths.
RandomTenths == {1, 2}
\* Date.now() + Math.random() as a text.
ClockRandomText(clock, random) == NumberText(10 * clock + random)

Skipped == [skipped |-> TRUE, id |-> <<>>]
Kept(id) == [skipped |-> FALSE, id |-> id]

\* The id an adapter gives an item of its feed, or the item is skipped:
\*   remoteok         lines 46-52
\*   weworkremotely   lines 93-99
\*   web3career       lines 195-205 (JSON), 170-181 (RSS)
\*   hnhiring         line 309
\*   jobicy           lines 356-362
\*   cryptojobslist   line 418
\*   workingnomads    line 459
\*   remotive         line 511
AdapterJobId(adapter, item, clock, random) ==
  CASE adapter = "remoteok" ->
         IF item.key = 0 THEN Skipped ELSE Kept(normalizeJob(item, "remoteok", clock).id)
    [] adapter = "weworkremotely" ->
         IF item.link = <<>> THEN Skipped
         ELSE Kept(normalizeJob(item, "weworkremotely", clock).id)
    [] adapter = "web3career-json" ->
         IF item.key # 0
           THEN Kept(normalizeJob(item, "web3career", clock).id)
           ELSE Kept(<<"web3career", "-">> \o ClockRandomText(clock, random))
    [] adapter = "web3career-rss" ->
         IF item.link = <<>> THEN Skipped
         ELSE Kept(<<"web3career", "-">> \o ClockRandomText(clock, random))
    [] adapter = "hnhiring" -> Kept(<<"hnhiring", "-">> \o KeyText(item.key))
    [] adapter = "jobicy" ->
         IF item.link = <<>> THEN Skipped
         ELSE Kept(<<"jobicy", "-">> \o hashString(item.link))
    [] adapter = "cryptojobslist" ->
         Kept(<<"cryptojobslist", "-">> \o
                (IF item.key # 0 THEN KeyText(item.key)
                 ELSE hashString(item.title \o <<"u", "n", "d", "e", "f", "i", "n", "e", "d">>)))
    [] adapter = "workingnomads" ->
         Kept(<<"workingnomads", "-">> \o
                (IF item.key # 0 THEN KeyText(item.key)
                 ELSE hashString(IF item.link # <<>> THEN item.link ELSE item.title)))
    [] OTHER -> Kept(<<"remotive", "-">> \o KeyText(item.key))

\* A record is normalized twice, or an item is fetched in two runs, while
\* the clock goes on: the call is drawn at the start, its results are kept.
NormalizeCalls ==
  {[op |-> "normalizeJob", rawJob |-> rawJob, source |-> source] :
     rawJob \in RawRecords, source \in NormalizeSources}
FetchCalls ==
  {[op |-> "fetch", adapter |-> adapter, item |-> item] :
     adapter \in Adapters, item \in RawRecords}

InitIds ==
  /\ file = Absent
  /\ call \in {[args |-> c, rets |-> <<>>] : c \in NormalizeCalls \cup FetchCalls}
  /\ seen = {}
  /\ saved = {}
  /\ baseline = TRUE
  /\ InitRunVars

Tick ==
  /\ now < StartHour + MaxTicks
  /\ now' = now + 1
  /\ UNCHANGED <<storeVars, pc, runs, runResult, results, invoked, allJobs, recentJobs,
                 newJobs, i, analyzedJobs, highScoreJobs, d, delivered, scored, failed,
                 oracleCount, processedAtDedup, fileAtStart>>

CallNormalizeJob ==
  /\ call.args.op = "normalizeJob"
  /\ Len(call.rets) < 2
  /\ call' = [call EXCEPT !.rets =
                Append(@, normalizeJob(call.args.rawJob, call.args.source, now))]
  /\ UNCHANGED <<file, seen, saved, baseline, runVars>>

FetchItem ==
  /\ call.args.op = "fetch"
  /\ Len(call.rets) < 2
  /\ \E random \in RandomTenths :
       call' = [call EXCEPT !.rets =
                  Append(@, AdapterJobId(call.args.adapter, call.args.item, now, random))]
  /\ UNCHANGED <<file, seen, saved, baseline, runVars>>

NextIds ==
  \/ Tick
  \/ CallNormalizeJob
  \/ FetchItem

SpecIds == InitIds /\ [][NextIds]_vars

\* Lines 612-620 on a Date: getTime() of Invalid Date is NaN, both comparisons
\* with NaN are false and the job is dropped.
KeptByTime(postedAt, hours, clock) ==
  /\ postedAt.valid
  /\ filterByTime(<<[id |-> 1, postedAt |-> postedAt.at]>>, hours, clock) # <<>>

\* ------------------------------------------------ two items of one run
\* Two items that reach the merged list of one run: the adapters run
\* concurrently (Promise.allSettled) and an adapter normalizes its items in a
\* synchronous loop, so both ids can be made within one reading of Date.now().
\* fetchWeb3CareerJobs returns the jobs of one endpoint only, so its JSON and
\* RSS branches never both contribute.
RunItems == {RawRecord(key, link, TimeAt(StartHour - 1)) : key \in NativeKeys, link \in Links}
Fetched(adapter, item) == [adapter |-> adapter, item |-> item]
Web3Branches == {"web3career-json", "web3career-rss"}
\* The same record of the same feed: the same native key, or no key and the
\* same link.
SameNative(a, b) ==
  /\ a.adapter = b.adapter
  /\ \/ a.item.key # 0 /\ a.item.key = b.item.key
     \/ a.item.key = 0 /\ b.item.key = 0 /\ a.item.link = b.item.link
ItemPairs ==
  {[op |-> "merge", first |-> a, second |-> b] :
     a \in {Fetched(adapter, item) : adapter \in Adapters, item \in RunItems},
     b \in {Fetched(adapter, item) : adapter \in Adapters, item \in RunItems}}
RunPairs ==
  {p \in ItemPairs :
     /\ ~SameNative(p.first, p.second)
     /\ ~(p.first.adapter # p.second.adapter
          /\ {p.first.adapter, p.second.adapter} \subseteq Web3Branches)}

InitPair ==
  /\ file = Absent
  /\ call \in {[args |-> p, rets |-> <<>>] : p \in RunPairs}
  /\ seen = {}
  /\ saved = {}
  /\ baseline = TRUE
  /\ InitRunVars

FetchPair ==
  /\ call.args.op = "merge"
  /\ call.rets = <<>>
  /\ \E r1 \in RandomTenths, r2 \in RandomTenths :
       call' = [call EXCEPT !.rets =
                  <<AdapterJobId(call.args.first.adapter, call.args.first.item, now, r1),
                    AdapterJobId(call.args.second.adapter, call.args.second.item, now, r2)>>]
  /\ UNCHANGED <<file, seen, saved, baseline, runVars>>

NextPair == FetchPair

SpecPair == InitPair /\ [][NextPair]_vars

\* ------------------------------------------------------- the time filter
\* filterByTime called on a list and then on its own result, while the clock
\* goes on. Posting times around both ends of the window of every threshold.
FilterHours == {1, hoursThreshold}
FilterPostedAts ==
  {StartHour - hoursThreshold - 1, StartHour - hoursThreshold,
   StartHour - 1, StartHour, StartHour + 1}
FilterJobs == {[id |-> id, postedAt |-> postedAt] : id \in 1..2, postedAt \in FilterPostedAts}
FilterCalls ==
  {[op |-> "filterByTime", jobs |-> jobs, hours |-> hours] :
     jobs \in SeqsUpTo(FilterJobs, MaxFiltered), hours \in FilterHours}

InitFilter ==
  /\ file = Absent
  /\ call \in {[args |-> c, rets |-> <<>>] : c \in FilterCalls}
  /\ seen = {}
  /\ saved = {}
  /\ baseline = TRUE
  /\ InitRunVars

\* const now = new Date() is read inside the call (line 613).
CallFilterByTime ==
  /\ call.args.op = "filterByTime"
  /\ call.rets = <<>>
  /\ call' = [call EXCEPT !.rets =
                <<[at |-> now, jobs |-> filterByTime(call.args.jobs, call.args.hours, now)]>>]
  /\ UNCHANGED <<file, seen, saved, baseline, runVars>>

CallFilterAgain ==
  /\ call.args.op = "filterByTime"
  /\ Len(call.rets) = 1
  /\ call' = [call EXCEPT !.rets =
                Append(@, [at |-> now,
                           jobs |-> filterByTime(call.rets[1].jobs, call.args.hours, now)])]
  /\ UNCHANGED <<file, seen, saved, baseline, runVars>>

NextFilter ==
  \/ Tick
  \/ CallFilterByTime
  \/ CallFilterAgain

SpecFilter == InitFilter /\ [][NextFilter]_vars

\* --------------------------------------------- the endpoints of web3.career
\* Lines 121-125: the candidate endpoints, in the order of the loop.
Endpoints == <<"api/v1/jobs", "remote-jobs.rss", "feed.rss">>

\* What one request meets: axios rejects (no answer, timeout, status of 500
\* or more), an answer with status 400..499, a body that the parser rejects
\* (parser.parse or JSON.parse throws, or data is null), or a body with items,
\* each of them with or without the fields the loop asks for.
RequestFails == [kind |-> "fails", items |-> <<>>]
ClientError == [kind |-> "status4xx", items |-> <<>>]
Unparsable == [kind |-> "unparsable", items |-> <<>>]
Body(items) == [kind |-> "body", items |-> items]
Outcomes ==
  {RequestFails, ClientError, Unparsable} \cup {Body(items) : items \in SeqsUpTo(BOOLEAN, MaxJobs)}

\* The jobs pushed for a body: one for every item that has its fields, in the
\* order of the body (lines 168-183 and 194-207).
RECURSIVE PushedFrom(_, _, _)
PushedFrom(endpoint, items, k) ==
  IF k > Len(items) THEN <<>>
  ELSE (IF items[k] THEN <<[endpoint |-> endpoint, item |-> k]>> ELSE <<>>)
         \o PushedFrom(endpoint, items, k + 1)

\* One turn of the loop, lines 127-221: return the jobs, or go to the next
\* endpoint.
EndpointTurn_acceptEmpty(endpoint, outcome) ==
  IF outcome.kind = "body"
    THEN [return |-> TRUE, jobs |-> PushedFrom(endpoint, outcome.items, 1)]
    ELSE [return |-> FALSE, jobs |-> <<>>]
EndpointTurn(endpoint, outcome) ==
  LET jobs == IF outcome.kind = "body" THEN PushedFrom(endpoint, outcome.items, 1) ELSE <<>>
  IN IF Len(jobs) > 0
       THEN [return |-> TRUE, jobs |-> jobs]
       ELSE [return |-> FALSE, jobs |-> <<>>]

InitWeb3 ==
  /\ file = Absent
  /\ call \in {[args |-> [op |-> "fetchWeb3CareerJobs", outcomes |-> o],
                requested |-> <<>>, ret |-> Pending] :
                 o \in [1..Len(Endpoints) -> Outcomes]}
  /\ seen = {}
  /\ saved = {}
  /\ baseline = TRUE
  /\ InitRunVars

NextEndpoint == Len(call.requested) + 1

\* await axios.get(endpoint) settles and the turn returns the jobs.
Web3Returns ==
  /\ call.args.op = "fetchWeb3CareerJobs"
  /\ call.ret = Pending
  /\ NextEndpoint <= Len(Endpoints)
  /\ LET turn == EndpointTurn(NextEndpoint, call.args.outcomes[NextEndpoint])
     IN /\ turn.return
        /\ call' = [call EXCEPT !.requested = Append(@, NextEndpoint),
                                !.ret = Fulfilled(turn.jobs)]
  /\ UNCHANGED <<file, seen, saved, baseline, runVars>>

\* The turn goes on to the next endpoint, which is requested at once.
Web3Continues ==
  /\ call.args.op = "fetchWeb3CareerJobs"
  /\ call.ret = Pending
  /\ NextEndpoint < Len(Endpoints)
  /\ ~EndpointTurn(NextEndpoint, call.args.outcomes[NextEndpoint]).return
  /\ call' = [call EXCEPT !.requested = Append(@, NextEndpoint)]
  /\ UNCHANGED <<file, seen, saved, baseline, runVars>>

\* The last turn ends the loop: line 228, return [].
Web3Exhausted ==
  /\ call.args.op = "fetchWeb3CareerJobs"
  /\ call.ret = Pending
  /\ NextEndpoint = Len(Endpoints)
  /\ ~EndpointTurn(NextEndpoint, call.args.outcomes[NextEndpoint]).return
  /\ call' = [call EXCEPT !.requested = Append(@, NextEndpoint),
                          !.ret = Fulfilled(<<>>)]
  /\ UNCHANGED <<file, seen, saved, baseline, runVars>>

NextWeb3 ==
  \/ Web3Returns
  \/ Web3Continues
  \/ Web3Exhausted

SpecWeb3 == InitWeb3 /\ [][NextWeb3]_vars

\* ------------------------------------------------ two adapters as a whole
\* An entry of the RemoteOK answer: null, or a record with or without id and
\* position.
NullEntry == [null |-> TRUE, key |-> 0, position |-> FALSE]
Entry(key, position) == [null |-> FALSE, key |-> key, position |-> position]
Entries == {NullEntry} \cup {Entry(key, position) : key \in NativeKeys, position \in BOOLEAN}
AxiosRejects == [kind |-> "fails"]
RemoteOKData(data) == [kind |-> "data", data |-> data]
RemoteOKResponses ==
  {AxiosRejects} \cup {RemoteOKData(data) : data \in SeqsUpTo(Entries, MaxJobs)}

\* Lines 45-56: the loop over response.data.
RECURSIVE RemoteOKLoop(_, _, _)
RemoteOKLoop(data, k, clock) ==
  IF k > Len(data) THEN <<>>
  ELSE LET item == data[k]
       IN (IF item.null \/ item.key = 0 \/ ~item.position
             THEN <<>>
             ELSE <<normalizeJob(RawRecord(item.key, <<>>, TimeAt(StartHour - 1)),
                                 "remoteok", clock)>>)
            \o RemoteOKLoop(data, k + 1, clock)

\* Lines 38-63.
fetchRemoteOKJobs_abort(response, clock) ==
  IF response.kind = "fails" \/ \E k \in 1..Len(response.data) : response.data[k].null
    THEN Rejected
    ELSE Fulfilled(RemoteOKLoop(response.data, 1, clock))
fetchRemoteOKJobs(response, clock) ==
  IF response.kind = "fails"
    THEN Rejected
    ELSE Fulfilled(RemoteOKLoop(response.data, 1, clock))

\* An item of the WeWorkRemotely feed: with or without title, and its link
\* (empty: no link).
WWRLinks == {<<>>, <<"j">>, <<"/", "4">>}
WWRItem(title, link) == [title |-> title, link |-> link]
WWRItems == {WWRItem(title, link) : title \in BOOLEAN, link \in WWRLinks}
\* What parser.parse does with a text that is not well-formed XML is the
\* library's: it throws an error whose message names XML, it throws another
\* error, or it returns a document without rss.channel.item.
ParserChoices == {"throwsXML", "throwsOther", "tolerant"}
Malformed(parser) == [kind |-> "malformed", parser |-> parser]
Feed(items) == [kind |-> "feed", items |-> items]
WWRResponses ==
  {AxiosRejects} \cup {Malformed(parser) : parser \in ParserChoices}
    \cup {Feed(items) : items \in SeqsUpTo(WWRItems, MaxJobs)}

\* Lines 90-104: the loop over the items.
RECURSIVE WWRLoop(_, _, _)
WWRLoop(items, k, clock) ==
  IF k > Len(items) THEN <<>>
  ELSE LET item == items[k]
       IN (IF ~item.title \/ item.link = <<>>
             THEN <<>>
             ELSE <<normalizeJob(RawRecord(0, item.link, TimeAt(StartHour - 1)),
                                 "weworkremotely", clock)>>)
            \o WWRLoop(items, k + 1, clock)

\* Lines 68-114. The catch returns [] for an error whose message includes
\* "XML" and rethrows every other error.
fetchWWRJobs(response, clock) ==
  CASE response.kind = "fails" -> Rejected
    [] response.kind = "malformed" ->
         IF response.parser = "throwsOther" THEN Rejected ELSE Fulfilled(<<>>)
    [] OTHER -> Fulfilled(WWRLoop(response.items, 1, clock))

FeedCalls ==
  {[op |-> "fetchRemoteOKJobs", response |-> r] : r \in RemoteOKResponses}
    \cup {[op |-> "fetchWWRJobs", response |-> r] : r \in WWRResponses}

InitFeeds ==
  /\ file = Absent
  /\ call \in {[args |-> c, ret |-> Pending] : c \in FeedCalls}
  /\ seen = {}
  /\ saved = {}
  /\ baseline = TRUE
  /\ InitRunVars

CallFetchRemoteOKJobs ==
  /\ call.args.op = "fetchRemoteOKJobs"
  /\ call.ret = Pending
  /\ call' = [call EXCEPT !.ret = fetchRemoteOKJobs(call.args.response, now)]
  /\ UNCHANGED <<file, seen, saved, baseline, runVars>>

CallFetchWWRJobs ==
  /\ call.args.op = "fetchWWRJobs"
  /\ call.ret = Pending
  /\ call' = [call EXCEPT !.ret = fetchWWRJobs(call.args.response, now)]
  /\ UNCHANGED <<file, seen, saved, baseline, runVars>>

NextFeeds ==
  \/ Tick
  \/ CallFetchRemoteOKJobs
  \/ CallFetchWWRJobs

SpecFeeds == InitFeeds /\ [][NextFeeds]_vars

\* ------------------------------------------------------------------- main
\* The process from its start to the end of main: the environment is read
\* once (a credential is set or not, single-run mode or not).
NotExited == [code |-> 0, exited |-> FALSE]
Exited(code) == [code |-> code, exited |-> TRUE]
Environments ==
  {[keySet |-> keySet, isOnceMode |-> isOnceMode, exit |-> NotExited] :
     keySet \in BOOLEAN, isOnceMode \in BOOLEAN}

InitMain ==
  /\ file \in RunFileStates
  /\ call \in Environments
  /\ seen = {}
  /\ saved = {}
  /\ baseline = (file.kind = "absent")
  /\ now = StartHour
  /\ pc = "main"
  /\ runs = 0
  /\ runResult = "none"
  /\ results = [s \in Sources |-> Pending]
  /\ invoked = {}
  /\ allJobs = <<>>
  /\ recentJobs = <<>>
  /\ newJobs = <<>>
  /\ i = 1
  /\ analyzedJobs = <<>>
  /\ highScoreJobs = <<>>
  /\ d = 1
  /\ delivered = <<>>
  /\ scored = <<>>
  /\ failed = {}
  /\ oracleCount = [id \in JobIds |-> 0]
  /\ processedAtDedup = {}
  /\ fileAtStart = file

ProcessExit(code) ==
  /\ pc' = "exited"
  /\ call' = [call EXCEPT !.exit = Exited(code)]
  /\ UNCHANGED <<file, seen, saved, baseline, now, runs, runResult, results, invoked,
                 allJobs, recentJobs, newJobs, i, analyzedJobs, highScoreJobs, d, delivered,
                 scored, failed, oracleCount, processedAtDedup, fileAtStart>>

\* main lines 167-182: getAIConfig throws without a key (config lines
\* 113-123), the catch ends the process with code 1.
MainConfigFails ==
  /\ pc = "main"
  /\ ~call.keySet
  /\ ProcessExit(1)

\* main line 185: await processJobs(), up to its first await.
MainRuns_unchecked ==
  /\ pc = "main"
  /\ runs' = runs + 1
  /\ pc' = "fetch"
  /\ runResult' = "running"
  /\ results' = [s \in Sources |-> Pending]
  /\ invoked' = Sources
  /\ fileAtStart' = file
  /\ ResetRun
  /\ UNCHANGED <<storeVars, now, oracleCount>>
MainRuns ==
  /\ pc = "main"
  /\ call.keySet
  /\ runs' = runs + 1
  /\ pc' = "fetch"
  /\ runResult' = "running"
  /\ results' = [s \in Sources |-> Pending]
  /\ invoked' = Sources
  /\ fileAtStart' = file
  /\ ResetRun
  /\ UNCHANGED <<storeVars, now, oracleCount>>

MainResumes == pc = "idle" /\ runs = 1 /\ call.exit = NotExited

\* processJobs rejected: main().catch, lines 210-213.
MainRunFails ==
  /\ MainResumes
  /\ runResult = "rejected"
  /\ ProcessExit(1)

\* Lines 188-191.
MainOnceExits ==
  /\ MainResumes
  /\ runResult = "returned"
  /\ call.isOnceMode
  /\ ProcessExit(0)

\* Lines 194-200: the schedule is set and main returns; the later runs are
\* those of SpecRun.
MainSchedules ==
  /\ MainResumes
  /\ runResult = "returned"
  /\ ~call.isOnceMode
  /\ pc' = "scheduled"
  /\ UNCHANGED <<storeVars, now, runs, runResult, results, invoked, allJobs, recentJobs,
                 newJobs, i, analyzedJobs, highScoreJobs, d, delivered, scored, failed,
                 oracleCount, processedAtDedup, fileAtStart>>

NextMain ==
  \/ MainConfigFails
  \/ MainRuns
  \/ \E s \in Sources : SettleFulfilled(s)
  \/ \E s \in Sources : SettleRejected(s)
  \/ JoinThrows
  \/ JoinEmpty
  \/ JoinNew
  \/ ScoreCall
  \/ OracleReturns
  \/ OracleThrows
  \/ Deliver
  \/ MainRunFails
  \/ MainOnceExits
  \/ MainSchedules

SpecMain == InitMain /\ [][NextMain]_vars

\* ----------------------------------------------------- two runs that overlap
\* The schedule callback of main (lines 198-200) calls processJobs whenever
\* the cron expression fires; nothing tells it that an earlier processJobs is
\* still waiting. The earlier run is the one of the run variables; the later
\* run keeps its locals in this record. Its fetch stage is taken in one step:
\* the merged list is whatever its adapters returned.
LaterRun(pc_, recent, new, next, scored_, atDedup) ==
  [op |-> "processJobs", pc |-> pc_, recentJobs |-> recent, newJobs |-> new, i |-> next,
   scored |-> scored_, processedAtDedup |-> atDedup]
Later(pc_) == call # NoCall /\ call.pc = pc_

FirstRun == runs = 0 /\ StartRun

\* The callback fires while the earlier run waits for analyzeJob (line 118):
\* lines 62-80 of the later run, up to its await.
LaterStarts ==
  /\ pc = "oracle"
  /\ call = NoCall
  /\ call' = LaterRun("fetch", <<>>, <<>>, 1, <<>>, {})
  /\ invoked' = Sources
  /\ UNCHANGED <<file, seen, saved, baseline, now, pc, runs, runResult, results, allJobs,
                 recentJobs, newJobs, i, analyzedJobs, highScoreJobs, d, delivered, scored,
                 failed, oracleCount, processedAtDedup, fileAtStart>>

\* Lines 82-107 of the later run: merge, time filter, dedup filter against
\* the store as it is now.
LaterJoins ==
  /\ Later("fetch")
  /\ \E merged \in SeqsUpTo(Jobs, MaxJobs) :
       LET recent == RecentOf(merged)
           new == NewOf(recent)
       IN /\ ~DedupThrows(recent)
          /\ call' = LaterRun(IF new = <<>> THEN "done" ELSE "score", recent, new, 1, <<>>,
                              Range(loadProcessedJobs(file).ids))
  /\ UNCHANGED <<file, seen, saved, baseline, runVars>>

\* Line 118 of the later run: analyzeJob is called.
LaterScoreCall ==
  /\ Later("score")
  /\ call' = [call EXCEPT !.pc = "oracle",
                          !.scored = Append(@, call.newJobs[call.i].id)]
  /\ oracleCount' = [oracleCount EXCEPT ![call.newJobs[call.i].id] = @ + 1]
  /\ UNCHANGED <<file, seen, saved, baseline, now, pc, runs, runResult, results, invoked,
                 allJobs, recentJobs, newJobs, i, analyzedJobs, highScoreJobs, d, delivered,
                 scored, failed, processedAtDedup, fileAtStart>>

\* Lines 118-126 of the later run: analyzeJob settles either way and the id
\* is saved; saveProcessedJob reads and writes the file in one synchronous
\* call. Past the last job the later run sorts and delivers, which touches
\* neither the store nor the earlier run.
LaterOracleSettles_overwrite ==
  /\ Later("oracle")
  /\ LET saved_ == saveProcessedJob_overwrite(file, call.newJobs[call.i].id)
     IN /\ file' = saved_.file
        /\ call' = [call EXCEPT !.i = @ + 1,
                                !.pc = IF saved_.ret.threw \/ call.i + 1 > Len(call.newJobs)
                                         THEN "done" ELSE "score"]
  /\ UNCHANGED <<seen, saved, baseline, runVars>>
LaterOracleSettles ==
  /\ Later("oracle")
  /\ LET saved_ == SaveInTry(file, call.newJobs[call.i].id)
     IN /\ file' = saved_.file
        /\ call' = [call EXCEPT !.i = @ + 1,
                                !.pc = IF saved_.ret.threw \/ call.i + 1 > Len(call.newJobs)
                                         THEN "done" ELSE "score"]
  /\ UNCHANGED <<seen, saved, baseline, runVars>>

NextOverlap ==
  \/ FirstRun
  \/ \E s \in Sources : SettleFulfilled(s)
  \/ \E s \in Sources : SettleRejected(s)
  \/ JoinThrows
  \/ JoinEmpty
  \/ JoinNew
  \/ ScoreCall
  \/ OracleReturns
  \/ OracleThrows
  \/ Deliver
  \/ LaterStarts
  \/ LaterJoins
  \/ LaterScoreCall
  \/ LaterOracleSettles

SpecOverlap == InitRun /\ [][NextOverlap]_vars

\* ================================================================ claims

\* What a load of file f yields as a set of ids.
Processed(f) == Range(loadProcessedJobs(f).ids)

\* This run is past Promise.allSettled.
Joined == runs >= 1 /\ pc # "fetch"
\* This run is past Promise.allSettled and has not called analyzeJob yet.
JustJoined == Joined /\ scored = <<>>
\* This run went through the whole score loop.
LoopDone == Joined /\ newJobs # <<>> /\ i = Len(newJobs) + 1 /\ runResult # "rejected"

\* C1: over non-overlapping runs analyzeJob is called at most once per job
\* id: an id in the processed set when a run's dedup filter runs is not
\* scored in that run, and no id is scored twice in one run, also when the
\* merged list holds an id more than once.
C1_AtMostOncePerId ==
  /\ \A id \in JobIds : oracleCount[id] <= 1
  /\ NoDup(scored)
  /\ Range(scored) \cap processedAtDedup = {}

\* C2: once a run is through its score loop, the id of every job that
\* entered the loop is in the processed set, whether analyzeJob returned or
\* threw.
C2_ScoredJobsProcessed ==
  LoopDone =>
    \A k \in 1..Len(newJobs) :
      /\ newJobs[k].id \in Processed(file)
      /\ isJobProcessed(file, newJobs[k].id) = ReturnedBool(TRUE)

C2_Witness ==
  /\ LoopDone
  /\ Len(newJobs) >= 2
  /\ failed # {}
  /\ analyzedJobs # <<>>
  /\ newJobs[1].id # newJobs[2].id

\* C3: a saveProcessedJob(id) that follows a saveProcessedJob(id) leaves the
\* file as the first call left it, and no storage call turns a stored list
\* without duplicates into one with a duplicate.
C3_SaveIdempotent ==
  [][/\ (call'.op = "save" /\ Repeats(call')) => file' = file
     /\ NoDup(StoredIds(file)) => NoDup(StoredIds(file'))]_vars

C3_Witness ==
  /\ call.op = "save"
  /\ Repeats(call)
  /\ ~call.ret.threw
  /\ Len(StoredIds(file)) >= 2
  /\ NoDup(StoredIds(file))

\* C4: without clearProcessedJobs the processed set only grows: a load
\* returns every id an earlier load returned, and a call leaves the loaded
\* list as it was or with one new id appended at its end.
C4_MonotonicGrowth ==
  [][call'.op # "clear" =>
       /\ call'.op = "load" => seen \subseteq Range(call'.ret.ids)
       /\ LET old == loadProcessedJobs(file).ids
              new == loadProcessedJobs(file').ids
          IN \/ new = old
             \/ \E id \in JobIds : ~Contains(old, id) /\ new = Append(old, id)]_vars

C4_Witness ==
  /\ call.op = "load"
  /\ call.prev = "save"
  /\ ~baseline
  /\ Cardinality(seen) >= 3
  /\ saved # {}
  /\ Len(call.ret.ids) > MaxStore

\* C5: a process that dies inside saveProcessedJob(id) leaves the file with
\* the whole old id list or the whole new one, so no stored id is lost.
C5_AtomicSave ==
  call.op = "saveCrashed" =>
    /\ file \in {call.before, saveProcessedJob(call.before, call.id).file}
    /\ Processed(call.before) \subseteq Processed(file)

\* C6: once saveProcessedJob(id) has returned, loadProcessedJobs holds id
\* and isJobProcessed(id) is true until clearProcessedJobs is called; an id
\* not saved since the last clear (or since the store was absent) is not
\* processed.
C6_SavedIsProcessed ==
  /\ \A id \in saved :
       /\ id \in Processed(file)
       /\ isJobProcessed(file, id) = ReturnedBool(TRUE)
  /\ call.op = "load" => saved \subseteq Range(call.ret.ids)
  /\ (call.op = "isJobProcessed" /\ call.id \in saved) => call.ret = ReturnedBool(TRUE)
  /\ (call.op = "isJobProcessed" /\ baseline /\ call.id \notin saved) =>
       call.ret = ReturnedBool(FALSE)

C6_Witness ==
  /\ call.op = "isJobProcessed"
  /\ call.ret = ReturnedBool(TRUE)
  /\ call.prev = "isJobProcessed"
  /\ call.prevId \notin saved
  /\ baseline
  /\ Cardinality(saved) >= 2

\* C7: loadProcessedJobs never throws, and returns the empty list when the
\* file is absent and when its content is corrupt (not parseable, or
\* parseable without a jobIds list).
C7_LoadEmptyOnCorrupt ==
  call.op = "load" =>
    /\ ~call.ret.threw
    /\ (call.before = Absent \/ call.before \in CorruptFiles) =>
         call.ret = Returned(TRUE, <<>>)

\* C8: after clearProcessedJobs, whatever the file held, loadProcessedJobs
\* returns the empty list and isJobProcessed is false for every id.
C8_ClearEmpties ==
  /\ call.op = "clear" =>
       /\ ~call.ret.threw
       /\ loadProcessedJobs(file) = Returned(TRUE, <<>>)
       /\ \A id \in JobIds : isJobProcessed(file, id) = ReturnedBool(FALSE)
  /\ (call.op = "load" /\ call.prev = "clear") => call.ret = Returned(TRUE, <<>>)
  /\ (call.op = "isJobProcessed" /\ call.prev = "clear") => call.ret = ReturnedBool(FALSE)

C8_Witness ==
  /\ call.op = "clear"
  /\ Len(StoredIds(call.before)) >= 2
  /\ file = ListFile(<<>>)

\* C9: the fetch stage is a settle-all join: every source is invoked in
\* every run, a rejected fetch does not end the run, and the merged list is
\* the lists of the fulfilled fetches, one after the other in the order of
\* the sources.
FulfilledLen(s) == IF results[s].state = "fulfilled" THEN Len(results[s].jobs) ELSE 0
RECURSIVE Offset(_)
Offset(s) == IF s = 1 THEN 0 ELSE Offset(s - 1) + FulfilledLen(s - 1)

C9_SettleAllJoin ==
  /\ runs >= 1 => invoked = Sources
  /\ (runResult = "rejected") => (AllSettled /\ ~loadProcessedJobs(file).isList)
  /\ JustJoined =>
       /\ AllSettled
       /\ Len(allJobs) = Offset(NumSources + 1)
       /\ \A s \in Sources : \A k \in 1..FulfilledLen(s) :
            allJobs[Offset(s) + k] = results[s].jobs[k]

C9_Witness ==
  /\ JustJoined
  /\ pc = "score"
  /\ results[1].state = "rejected"
  /\ \E s, u \in Sources :
       /\ s < u
       /\ FulfilledLen(s) >= 1
       /\ FulfilledLen(u) >= 1
       /\ results[s].jobs # results[u].jobs
  /\ Len(allJobs) = MaxJobs

\* C10: when every fetch rejects, or the merged, time-filtered, deduplicated
\* list is empty, processJobs returns without raising, calls analyzeJob for
\* no job, writes nothing to the store and delivers nothing.
AllRejected == \A s \in Sources : results[s].state = "rejected"

C10_EmptyRunIsClean ==
  (JustJoined /\ (AllRejected \/ (runResult # "rejected" /\ newJobs = <<>>))) =>
    /\ pc = "idle"
    /\ runResult = "returned"
    /\ scored = <<>>
    /\ file = fileAtStart
    /\ delivered = <<>>

C10_Witness ==
  /\ JustJoined
  /\ AllRejected
  /\ runResult = "returned"
  /\ file = NonList

\* C11: the score loop is sequential: at most one analyzeJob call of the run
\* is outstanding, the calls follow the order of newJobs, and when the call
\* for a job starts the id of every job before it in newJobs is in the
\* processed set.
Outstanding == Len(scored) - (i - 1)

C11_SequentialScoring ==
  Joined =>
    /\ Outstanding \in {0, 1}
    /\ (Outstanding = 1) <=> (pc = "oracle")
    /\ Len(scored) <= Len(newJobs)
    /\ \A k \in 1..Len(scored) : scored[k] = newJobs[k].id
    /\ \A k \in 1..(Len(scored) - Outstanding) :
         isJobProcessed(file, newJobs[k].id) = ReturnedBool(TRUE)

C11_Witness ==
  /\ pc = "oracle"
  /\ Len(scored) = 2
  /\ scored[1] # scored[2]
  /\ failed = {scored[1]}
  /\ scored[2] \notin Processed(file)

\* C12: at every point of a run's score loop, a point where the process
\* dies included, at most one job whose analyzeJob call was started in the
\* run has an id that is not in the processed set.
Unmarked == {k \in 1..Len(scored) : scored[k] \notin Processed(file)}

C12_AtMostOneUnmarked == Joined => Cardinality(Unmarked) <= 1

\* C13: a run that returns has handed to sendNotification exactly the jobs
\* analyzeJob returned with a score of minScore or more; a job scored lower
\* is in the processed set and is not delivered, and a job whose analyzeJob
\* threw is not delivered.
C13_DeliveredAreHighScore ==
  /\ \A k \in 1..Len(delivered) :
       /\ delivered[k] \in Range(analyzedJobs)
       /\ delivered[k].score >= minScore
  /\ (Joined /\ runResult = "returned") =>
       /\ Range(delivered) = {a \in Range(analyzedJobs) : a.score >= minScore}
       /\ Len(delivered) = Len(SelectSeq(analyzedJobs, LAMBDA a : a.score >= minScore))
       /\ \A a \in Range(analyzedJobs) : a.job.id \in Processed(file)
       /\ \A id \in failed :
            /\ id \in Processed(file)
            /\ (\A a \in Range(analyzedJobs) : a.job.id # id) =>
                 (\A k \in 1..Len(delivered) : delivered[k].job.id # id)

C13_Witness ==
  /\ Joined
  /\ runResult = "returned"
  /\ Len(analyzedJobs) = 2
  /\ analyzedJobs[1].score = minScore - 1
  /\ analyzedJobs[2].score = minScore
  /\ analyzedJobs[1].job.id # analyzedJobs[2].job.id
  /\ delivered = <<analyzedJobs[2]>>

\* C14: the jobs are delivered in non-increasing score order, and jobs of
\* equal score in the order in which they were scored.
C14_DeliveredByScore ==
  /\ \A k, m \in 1..Len(delivered) : k < m => delivered[k].score >= delivered[m].score
  /\ \A v \in Scores :
       LET dv == SelectSeq(delivered, LAMBDA a : a.score = v)
           av == SelectSeq(analyzedJobs, LAMBDA a : a.score = v)
       IN /\ Len(dv) <= Len(av)
          /\ dv = SubSeq(av, 1, Len(dv))

C14_Witness ==
  /\ Len(delivered) = 2
  /\ delivered[1].score > delivered[2].score
  /\ analyzedJobs = <<delivered[2], delivered[1]>>
  /\ delivered[1].job.id # delivered[2].job.id

\* C15: a run goes through fetch, score and delivery in this order and never
\* back: once analyzeJob has been called no fetch is called or settles, and
\* nothing is delivered before analyzeJob has been called for every new job
\* and the last call has settled.
StageRank ==
  CASE pc = "fetch" -> 1
    [] pc \in {"score", "oracle"} -> 2
    [] pc = "deliver" -> 3
    [] OTHER -> 4

C15_StagesInOrder ==
  [][runs' = runs =>
       /\ StageRank' >= StageRank
       /\ scored # <<>> => (invoked' = invoked /\ results' = results)
       /\ delivered' # <<>> =>
            /\ Len(scored') = Len(newJobs')
            /\ i' = Len(newJobs') + 1
            /\ scored' = scored]_vars

C15_Witness ==
  /\ runs = 2
  /\ runResult = "returned"
  /\ Len(scored) = 2
  /\ Len(delivered) = 2

\* The finished call of the scoring client, when it is one of op.
Did(op) == call.done /\ call.args.op = op

\* C16: every AnalyzedJob analyzeJob returns has a whole-number score from 1
\* to 10 and a non-empty reason, and has the fields of the Job it was called
\* with unchanged.
C16_AnalyzedJobValid ==
  (Did("analyzeJob") /\ ~call.ret.rejected) =>
    LET a == call.ret.value
        job == call.args.job
    IN /\ a.score % 10 = 0
       /\ a.score >= 10
       /\ a.score <= 100
       /\ a.reason # <<>>
       /\ a.id = job.id
       /\ a.title = job.title
       /\ a.company = job.company
       /\ a.description = job.description
       /\ a.url = job.url
       /\ a.postedAt = job.postedAt
       /\ a.source = job.source

\* C17: parseAIResponse throws when the text (its code fence set aside) is
\* no JSON, when the score, taken as a number, is not a number or is outside
\* 1..10, and when the reason is missing or blank once trimmed; for every
\* other text it returns that number and the trimmed reason.
C17_ParseThrowsIffInvalid ==
  Did("parseAIResponse") =>
    LET body == call.args.response.body
        score == IF body.kind = "object" THEN ToNumber(body.score) ELSE NaN
        reason == IF body.kind = "object" /\ Truthy(body.reason)
                    THEN StringOf(body.reason)
                    ELSE <<>>
        invalid == \/ body.kind = "notjson"
                   \/ score.nan
                   \/ score.tenths < 10
                   \/ score.tenths > 100
                   \/ Trim(reason) = <<>>
    IN /\ invalid => call.ret.threw
       /\ ~invalid => call.ret = Parsed(score.tenths, Trim(reason))

C17_Witness ==
  /\ Did("parseAIResponse")
  /\ call.args.response.fence = "json"
  /\ call.args.response.pad
  /\ call.args.response.body.score = JNumber(80)
  /\ call.args.response.body.reason = JString(<<" ", "x">>)
  /\ call.ret = Parsed(80, <<"x">>)

\* C18: with either protocol shape, analyzeJob rejects and returns no
\* AnalyzedJob when the transport call fails, when the response holds no or
\* empty content, and when parseAIResponse throws on the content.
C18_AnalyzeNeverDegrades ==
  Did("analyzeJob") =>
    LET reply == call.args.reply
        failure == \/ reply.kind \in {"fails", "nocontent", "empty"}
                   \/ parseAIResponse(reply.text).threw
    IN /\ failure => call.ret = AnalyzeRejected
       /\ ~call.ret.rejected =>
            /\ reply.kind = "text"
            /\ call.ret.value.score = parseAIResponse(reply.text).score
            /\ call.ret.value.reason = parseAIResponse(reply.text).reason

C18_Witness ==
  /\ Did("analyzeJob")
  /\ call.args.provider # "claude"
  /\ call.args.keySet
  /\ call.args.reply.kind = "text"
  /\ call.args.reply.text.body.kind = "object"
  /\ call.args.reply.text.body.score = JNumber(150)
  /\ call.ret = AnalyzeRejected

\* C19: an item fetched twice, in two runs, gets the same id from its
\* adapter both times, whatever the clock and the random numbers are.
C19_StableAdapterIds ==
  (call.args.op = "fetch" /\ Len(call.rets) = 2) => call.rets[1] = call.rets[2]

\* C20: the id normalizeJob returns starts with the source tag and "-", and
\* two calls on the same record return the same id, whatever the time
\* between them.
C20_NormalizeIdStable ==
  call.args.op = "normalizeJob" =>
    /\ \A k \in 1..Len(call.rets) :
         /\ Len(call.rets[k].id) >= 2
         /\ call.rets[k].id[1] = call.args.source
         /\ call.rets[k].id[2] = "-"
    /\ Len(call.rets) = 2 => call.rets[1].id = call.rets[2].id

\* C21: within one run, two jobs of the merged list that come from different
\* sources or from different records of one source never carry the same id.
C21_RunIdsDistinct ==
  (call.args.op = "merge" /\ Len(call.rets) = 2
     /\ ~call.rets[1].skipped /\ ~call.rets[2].skipped)
    => call.rets[1].id # call.rets[2].id

\* C22: a record whose time field is missing or is no date is normalized to a
\* job whose postedAt is a valid time, the current one, so that the time
\* filter keeps it.
C22_UnparsedTimeIsNow ==
  \A k \in 1..Len(call.rets) :
    (call.args.op = "normalizeJob" /\ call.args.rawJob.time.kind # "time")
      => /\ call.rets[k].postedAt.valid
         /\ call.rets[k].postedAt.at \in StartHour..now
         /\ KeptByTime(call.rets[k].postedAt, hoursThreshold, now)

InWindow(job, hours, clock) == clock - job.postedAt >= 0 /\ clock - job.postedAt <= hours
Occurrences(list, job) == Cardinality({k \in 1..Len(list) : list[k] = job})
RECURSIVE IsSubSeq(_, _)
IsSubSeq(s, t) ==
  IF s = <<>> THEN TRUE
  ELSE IF t = <<>> THEN FALSE
  ELSE IF Head(s) = Head(t) THEN IsSubSeq(Tail(s), Tail(t))
  ELSE IsSubSeq(s, Tail(t))
\* What is left of a list at a clock reading: the jobs in the window, each as
\* often as in the list, in the order of the list.
LeftOf(result, list, hours, clock) ==
  /\ IsSubSeq(result, list)
  /\ \A job \in Range(list) :
       Occurrences(result, job) =
         IF InWindow(job, hours, clock) THEN Occurrences(list, job) ELSE 0

\* C23: filterByTime(jobs, h) returns exactly the jobs with
\* 0 <= now - postedAt <= h, in the order of the input; a job dated in the
\* future is dropped.
C23_FilterIsWindow ==
  (call.args.op = "filterByTime" /\ Len(call.rets) >= 1)
    => /\ LeftOf(call.rets[1].jobs, call.args.jobs, call.args.hours, call.rets[1].at)
       /\ \A k \in 1..Len(call.rets[1].jobs) :
            call.rets[1].jobs[k].postedAt <= call.rets[1].at
C23_Witness ==
  /\ call.args.op = "filterByTime"
  /\ Len(call.rets) >= 1
  /\ Len(call.args.jobs) = 2
  /\ Len(call.rets[1].jobs) = 1
  /\ \E k \in 1..2 : call.args.jobs[k].postedAt > call.rets[1].at

\* C24 as stated: filtering an already filtered list with the same threshold
\* returns the same list, also when the clock has advanced between the calls.
C24_IdempotentAnyClock ==
  (call.args.op = "filterByTime" /\ Len(call.rets) = 2)
    => call.rets[2].jobs = call.rets[1].jobs
\* C24: filtering an already filtered list with the same threshold at the
\* same clock reading returns the same list; after the clock has advanced it
\* returns the first result without the jobs that have left the window.
C24_IdempotentSameClock ==
  (call.args.op = "filterByTime" /\ Len(call.rets) = 2)
    => /\ call.rets[2].at = call.rets[1].at => call.rets[2].jobs = call.rets[1].jobs
       /\ LeftOf(call.rets[2].jobs, call.rets[1].jobs, call.args.hours, call.rets[2].at)
C24_Witness ==
  /\ call.args.op = "filterByTime"
  /\ Len(call.rets) = 2
  /\ call.rets[2].at = call.rets[1].at
  /\ Len(call.rets[1].jobs) = 2
  /\ Len(call.args.jobs) = 2

Productive(k) ==
  /\ call.args.outcomes[k].kind = "body"
  /\ \E j \in 1..Len(call.args.outcomes[k].items) : call.args.outcomes[k].items[j]
\* The list holds one job for every item of endpoint k that has its fields,
\* in the order of the items.
JobListOf(jobs, k) ==
  LET items == call.args.outcomes[k].items
  IN /\ Len(jobs) = Cardinality({j \in 1..Len(items) : items[j]})
     /\ \A n \in 1..Len(jobs) :
          /\ jobs[n].endpoint = k
          /\ jobs[n].item \in 1..Len(items)
          /\ items[jobs[n].item]
          /\ n > 1 => jobs[n - 1].item < jobs[n].item

\* C25: fetchWeb3CareerJobs requests its endpoints in list order; endpoint k
\* is requested only if every earlier one failed or gave no job; nothing is
\* requested after an endpoint gave a job; the result is the job list of that
\* endpoint, or the empty list when all are exhausted; it never throws.
C25_FirstProductiveEndpoint ==
  call.args.op = "fetchWeb3CareerJobs"
    => /\ \A n \in 1..Len(call.requested) :
            /\ call.requested[n] = n
            /\ \A k \in 1..(n - 1) : ~Productive(k)
       /\ call.ret.state # "rejected"
       /\ call.ret.state = "pending" =>
            /\ Len(call.requested) < Len(Endpoints)
            /\ \A k \in 1..Len(call.requested) : ~Productive(k)
       /\ call.ret.state = "fulfilled" =>
            LET last == Len(call.requested)
            IN /\ last >= 1
               /\ IF Productive(last)
                    THEN JobListOf(call.ret.jobs, last)
                    ELSE last = Len(Endpoints) /\ call.ret.jobs = <<>>
C25_Witness ==
  /\ call.args.op = "fetchWeb3CareerJobs"
  /\ call.ret.state = "fulfilled"
  /\ call.requested = <<1, 2>>
  /\ call.args.outcomes[1] = Body(<<FALSE>>)
  /\ Len(call.ret.jobs) = 1
  /\ Productive(3)

\* C26: fetchWWRJobs throws when the request fails at the network layer and
\* when the content is not well-formed XML; neither becomes an empty list.
C26_WWRThrows ==
  (call.args.op = "fetchWWRJobs" /\ call.ret # Pending
     /\ call.args.response.kind \in {"fails", "malformed"})
    => call.ret = Rejected

GoodEntry(k) ==
  LET item == call.args.response.data[k]
  IN ~item.null /\ item.key # 0 /\ item.position
GoodRank(k) == Cardinality({j \in 1..k : GoodEntry(j)})

\* C27: fetchRemoteOKJobs rejects when the transport call fails; on an answer
\* it returns exactly the normalized jobs of the entries that are not null
\* and have id and position, in the order of the answer; a null or malformed
\* entry is skipped and does not abort the batch.
C27_RemoteOKStrict ==
  (call.args.op = "fetchRemoteOKJobs" /\ call.ret # Pending)
    => IF call.args.response.kind = "fails"
         THEN call.ret = Rejected
         ELSE LET data == call.args.response.data
              IN /\ call.ret.state = "fulfilled"
                 /\ Len(call.ret.jobs) = GoodRank(Len(data))
                 /\ \A k \in 1..Len(data) :
                      GoodEntry(k) =>
                        /\ call.ret.jobs[GoodRank(k)].id
                             = <<"remoteok", "-">> \o NatText(data[k].key)
                        /\ call.ret.jobs[GoodRank(k)].source = "remoteok"
C27_Witness ==
  /\ call.args.op = "fetchRemoteOKJobs"
  /\ call.args.response.kind = "data"
  /\ Len(call.args.response.data) = 2
  /\ call.args.response.data[1].null
  /\ call.ret.state = "fulfilled"
  /\ Len(call.ret.jobs) = 1

\* C28: without a scoring credential the process ends with a non-zero exit
\* code before any source adapter is invoked, before any oracle call and
\* before any write to the processed set.
C28_NoKeyNoRun ==
  ~call.keySet
    => /\ pc \in {"main", "exited"}
       /\ pc = "exited" => call.exit.exited /\ call.exit.code # 0
       /\ invoked = {}
       /\ runs = 0
       /\ \A id \in JobIds : oracleCount[id] = 0
       /\ file = fileAtStart
C28_Witness ==
  /\ ~call.keySet
  /\ pc = "exited"
  /\ call.exit = Exited(1)

\* C29: an error while one job of the new-jobs list is processed (the oracle
\* call, the validation of its answer, or the write of its id) stays with
\* that job: every later job of the list is scored in the same run and the
\* run goes on to the threshold and delivery stages.
C29_ScoreErrorsContained ==
  (Joined /\ pc = "idle" /\ newJobs # <<>>)
    => /\ runResult = "returned"
       /\ Len(scored) = Len(newJobs)

\* The ids whose save by the earlier and by the later run has returned.
SavedByEarlier == {scored[k] : k \in 1..(IF pc = "oracle" THEN Len(scored) - 1 ELSE Len(scored))}
SavedByLater ==
  IF call = NoCall THEN {}
  ELSE {call.scored[k] :
          k \in 1..(IF call.pc = "oracle" THEN Len(call.scored) - 1 ELSE Len(call.scored))}
BothEnded == pc = "idle" /\ runResult = "returned" /\ Later("done")
IdsOf(jobs) == {jobs[k].id : k \in 1..Len(jobs)}

\* C30: a later processJobs can start while an earlier one waits in its score
\* stage. No save of either run loses an id the other has written: every id
\* whose save has returned is in the processed set, so after both runs the
\* set holds every id either run scored. A job the earlier run has not yet
\* marked when the later run filters passes that filter, and is then scored
\* by both runs.
C30_OverlapKeepsIds ==
  /\ call # NoCall => (SavedByEarlier \cup SavedByLater) \subseteq Processed(file)
  /\ BothEnded => (Range(scored) \cup Range(call.scored)) \subseteq Processed(file)
  /\ (call # NoCall /\ call.pc # "fetch") =>
       IdsOf(call.newJobs) = IdsOf(call.recentJobs) \ call.processedAtDedup
  /\ BothEnded =>
       \A id \in (IdsOf(newJobs) \cap IdsOf(call.recentJobs)) \ call.processedAtDedup :
         /\ id \in Range(scored)
         /\ id \in Range(call.scored)
         /\ oracleCount[id] >= 2
C30_Witness ==
  /\ BothEnded
  /\ Len(newJobs) = 2
  /\ \E id \in JobIds :
       /\ id \in Range(scored) \cap Range(call.scored)
       /\ id \notin call.processedAtDedup
       /\ oracleCount[id] = 2
  /\ (Range(scored) \cup Range(call.scored)) \subseteq Processed(file)

====
